---------------------------- MODULE Spec2Model ----------------------------
(***************************************************************************)
(* iHSV Servo Tool (src/iHSV-Servo-Tool.py): the polling engine            *)
(* (startStopMonitor / updateCurves / appendData), the parameter store     *)
(* (readParams / writeParams) and the parameter file codec                 *)
(* (saveParamsAsXML / writeParamsFromXML), with the Modbus device as the   *)
(* environment.                                                            *)
(***************************************************************************)
EXTENDS Integers, Sequences, FiniteSets, TLC

VARIABLES
    connected,      \* MainWindow.connected
    monitorText,    \* pbStartStopMonitor.text()
    timerActive,    \* monitorTimer is running
    active,         \* curve -> activeCheckbox.isChecked()
    yData,          \* curve -> [none : yData is None, y : the samples]
    dev,            \* the drive's holding registers: address -> word
    addressList,    \* ParamTable.addressList
    decimalList,    \* ParamTable.decimalList
    cellSlot,       \* ParamTable.cellChanged is connected to writeParams
    gainsOnly,      \* cbLoadGainsOnly.isChecked()
    file,           \* the parameter file on disk: [exists, doc]
    pc,             \* "idle", or the bulk operation in progress
    job,            \* the bulk operation's locals: document, group index, ...
    bus,            \* requests sent to the device by the current operation
    done,           \* what the current/last operation did, per parameter
    tickLog,        \* outcome of every timer tick so far
    nOps,           \* number of operator actions so far
    seqNo,          \* number of values appended since the last restart
    arg,            \* input of the pure function under check
    res             \* its results so far

vars == << connected, monitorText, timerActive, active, yData, dev,
           addressList, decimalList, cellSlot, gainsOnly, file, pc, job,
           bus, done, tickLog, nOps, seqNo, arg, res >>

-----------------------------------------------------------------------------
(* Bounds of the model *)

MaxOps == 3          \* operator actions (clicks, edits) per behaviour
MaxTicks == 2        \* timer ticks per behaviour
MaxAppends == 1003   \* appends in the channel buffer specification
MaxRegs == 4         \* requested registers in the aggregator specification
MaxAddr == 9         \* largest address in the aggregator specification
MaxWord == 40        \* largest raw word in the codec specification

(* Program constants *)

HistCap == 1000      \* appendData: len(self.yData) <= 1000
GapMax == 3          \* updateCurves: np.diff(regs_list) > 3
WriteBit == 32768    \* 0x8000, or-ed into the address of a write
WordMod == 65536     \* 1 << 16
SignBit == 32768     \* 1 << 15, 0x8000 & value
ProbeReg == 128      \* openCloseComport: read_register(0x80)

-----------------------------------------------------------------------------
(* Arithmetic helpers *)

RECURSIVE Pow(_, _)
Pow(b, k) == IF k = 0 THEN 1 ELSE b * Pow(b, k - 1)

\* 2^k mod m, by repeated doubling (k may exceed the integer width)
RECURSIVE PowMod(_, _)
PowMod(k, m) == IF k = 0 THEN 1 % m ELSE (2 * PowMod(k - 1, m)) % m

Abs(n) == IF n < 0 THEN -n ELSE n

\* floor(log2 n), n >= 1
RECURSIVE Log2Floor(_)
Log2Floor(n) == IF n < 2 THEN 0 ELSE 1 + Log2Floor(n \div 2)

\* the binary exponent of n/b: the e with 2^e <= n/b < 2^(e+1)  (n, b >= 1)
RECURSIVE BinExpUp(_, _, _)
BinExpUp(n, b, e) == IF b * Pow(2, e + 1) <= n THEN BinExpUp(n, b, e + 1) ELSE e
RECURSIVE BinExpDown(_, _, _)
BinExpDown(n, b, t) == IF n * Pow(2, t) < b THEN BinExpDown(n, b, t + 1) ELSE -t
BinExp(n, b) == IF n >= b THEN BinExpUp(n, b, 0) ELSE BinExpDown(n, b, 1)

-----------------------------------------------------------------------------
(* Register codec, as the handlers compute it.                             *)
(*                                                                         *)
(* A cell or file text is [lit, num, exp]: an integer literal ("150"), a   *)
(* literal with a decimal point ("-15.0", value num / 10^exp) or a text    *)
(* that is no number.  float(text) is the IEEE double nearest to           *)
(* num / 10^exp; str() of a double parses back to it.                      *)

IntText(n) == [lit |-> "int", num |-> n, exp |-> 0]
FloatText(n, e) == [lit |-> "float", num |-> n, exp |-> e]
BadText == [lit |-> "bad", num |-> 0, exp |-> 0]

\* int(float(n / 10^d) * 10^d) in IEEE double arithmetic: the quotient is
\* rounded to 53 bits, the product is rounded again, int() truncates.
\* With k = 52 - BinExp the quotient is m / 2^k, m = round(n * 2^k / 10^d),
\* and r = n * 2^k mod 10^d is what the first rounding dropped; the product
\* falls below n, and truncates to n - 1, when the quotient was rounded down
\* by more than half a unit in the last place of n.
RECURSIVE FloatMulInt(_, _)
FloatMulInt(n, d) ==
    IF n < 0 THEN -FloatMulInt(-n, d)
    ELSE IF n = 0 \/ d = 0 THEN n
    ELSE LET b == Pow(10, d)
             e == BinExp(n, b)
             p == Log2Floor(n)
             r == ((n % b) * PowMod(52 - e, b)) % b
             half == IF n = Pow(2, p) THEN Pow(2, p - e - 2)
                                      ELSE Pow(2, p - e - 1)
         IN  IF 2 * r < b /\ r > half THEN n - 1 ELSE n

\* int(float(text) * 10 ** d), and int(float(text)) when d = 0
ScaleToInt(text, d) ==
    IF text.exp <= d
    THEN FloatMulInt(text.num * Pow(10, d - text.exp), d)
    ELSE LET q == Pow(10, text.exp - d)
         IN  IF text.num % q = 0
             THEN FloatMulInt(text.num \div q, d)
             ELSE IF text.num >= 0 THEN text.num \div q
                                   ELSE -((-text.num) \div q)

\* readParams: the raw word as shown in the Value column
ReadValue(val, defaultNegative, decimal) ==
    LET s == IF defaultNegative /\ val >= SignBit THEN val - WordMod ELSE val
    IN  IF decimal # 0 THEN FloatText(s, decimal) ELSE IntText(s)

\* writeParams / writeParamsFromXML: negative values to two's complement
TwosComplement(value) == IF value < 0 THEN WordMod + value ELSE value

\* minimalmodbus.write_register packs the value as an unsigned 16-bit word
\* and raises ValueError, sending nothing, when it does not fit
Packable(value) == value >= 0 /\ value < WordMod

-----------------------------------------------------------------------------
(* Channel buffer: ModBusDataCurveItem *)

\* (rawValues[0] << 16) | rawValues[1], minus 2^32 when bit 31 is set; written
\* on the high word so that no intermediate value leaves 32 bits
Decode32(hi, lo) ==
    IF hi >= SignBit THEN (hi - WordMod) * WordMod + lo ELSE hi * WordMod + lo

Decode16(raw) == IF raw >= SignBit THEN -(WordMod - raw) ELSE raw

\* DecodeRaw that takes a single register as it is, signed channel or not
DecodeRawNoSign(signed, rawValues) ==
    IF Len(rawValues) = 2 THEN Decode32(rawValues[1], rawValues[2])
    ELSE rawValues[1]

DecodeRaw(signed, rawValues) ==
    IF Len(rawValues) = 2 THEN Decode32(rawValues[1], rawValues[2])
    ELSE IF signed THEN Decode16(rawValues[1])
    ELSE rawValues[1]

NoData == [none |-> TRUE, y |-> << >>]

\* PlotCurveItem.setData() without arguments: an empty array
setData == [none |-> FALSE, y |-> << >>]

AppendValue(yd, value) ==
    IF yd.none THEN [none |-> FALSE, y |-> << value >>]
    ELSE IF Len(yd.y) <= HistCap THEN [none |-> FALSE, y |-> Append(yd.y, value)]
    ELSE [none |-> FALSE, y |-> Append(Tail(yd.y), value)]

appendData(signed, yd, rawValues) == AppendValue(yd, DecodeRaw(signed, rawValues))

-----------------------------------------------------------------------------
(* Range aggregator: updateCurves *)

RECURSIVE Insert(_, _)
Insert(x, s) ==
    IF s = << >> THEN << x >>
    ELSE IF x <= Head(s) THEN << x >> \o s
    ELSE << Head(s) >> \o Insert(x, Tail(s))

RECURSIVE Sorted(_)
Sorted(s) == IF s = << >> THEN << >> ELSE Insert(Head(s), Sorted(Tail(s)))

\* SplitAt with the gap test off by one (a gap of 3 already splits)
SplitAtNarrow(regs_list) ==
    { i \in 2..Len(regs_list) : regs_list[i] - regs_list[i - 1] >= GapMax }

\* np.where(np.diff(regs_list) > 3)[0] + 1: the positions that open a new piece
SplitAt(regs_list) ==
    { i \in 2..Len(regs_list) : regs_list[i] - regs_list[i - 1] > GapMax }

\* np.split, then range(first, last + 1) of every piece, as {start, count}
RECURSIVE Pieces(_, _, _)
Pieces(regs_list, from, cuts) ==
    IF from > Len(regs_list) THEN << >>
    ELSE LET later == { i \in cuts : i > from }
             to == IF later = {} THEN Len(regs_list)
                   ELSE (CHOOSE i \in later : \A j \in later : i <= j) - 1
         IN  << [start |-> regs_list[from],
                 count |-> regs_list[to] - regs_list[from] + 1] >>
             \o Pieces(regs_list, to + 1, cuts)

Aggregate(regs) ==
    LET regs_list == Sorted(regs)
    IN  Pieces(regs_list, 1, SplitAt(regs_list))

-----------------------------------------------------------------------------
(* The catalog of the selected drive model (iHSV_Properties): the live     *)
(* data list and the parameter groups.                                     *)

\* get_live_data_list(): registers and signedness of every curve
LiveData ==
    << [regs |-> << 5, 6 >>, signed |-> TRUE],
       [regs |-> << 9 >>, signed |-> TRUE],
       [regs |-> << 20 >>, signed |-> FALSE] >>

Curves == DOMAIN LiveData

NoCode == "(absent)"

\* get_parameter_list([group]): neg is float(Default) < 0, dec is
\* decimal_place (-1: the parameter has no such key)
ParamGroups ==
    << << [addr |-> 128, neg |-> TRUE, dec |-> 1, code |-> "P01"] >>,
       << [addr |-> 129, neg |-> FALSE, dec |-> 2, code |-> "P02"],
          [addr |-> 130, neg |-> FALSE, dec |-> -1, code |-> "P03"] >>,
       << [addr |-> 131, neg |-> TRUE, dec |-> 0, code |-> "P04"] >> >>

Groups == DOMAIN ParamGroups

\* gain_relevant_only_registers
GainCodes == { "P01", "P04" }

ParamAddrs == UNION { { ParamGroups[g][i].addr : i \in DOMAIN ParamGroups[g] } : g \in Groups }

\* what the drive holds when the tool starts
DevInit == [a \in ParamAddrs |->
              CASE a = 128 -> 65386
                [] a = 129 -> 29
                [] a = 130 -> 7
                [] OTHER -> 65535]

-----------------------------------------------------------------------------
(* Parameter file records: one Parameter element of the XML file.  dp is   *)
(* the decimal_place text when it is all digits, -1 when the element is    *)
(* missing or is not; code is the Code text, NoCode without the element.   *)

\* readParams, then saveParamsAsXML of the table row
SaveRecord(param, val) ==
    [addr |-> param.addr,
     value |-> ReadValue(val, param.neg, IF param.dec < 0 THEN 0 ELSE param.dec),
     dp |-> IF param.dec < 0 THEN 0 ELSE param.dec,
     code |-> param.code]

\* writeParamsFromXML: float(Value), times 10 ** decimal_place, int()
ReplayValue(rec) == ScaleToInt(rec.value, IF rec.dp >= 0 THEN rec.dp ELSE 0)

\* reg | 0x8000
OrWriteBit(reg) == IF (reg \div WriteBit) % 2 = 1 THEN reg ELSE reg + WriteBit

\* writeParamsFromXML: is the record skipped by the gain filter
Skipped(rec, filter) == filter /\ rec.code # NoCode /\ rec.code \notin GainCodes

-----------------------------------------------------------------------------
(* State after construction (MainWindow.__init__) *)

NoJob == [doc |-> << >>, gi |-> 0, canceled |-> FALSE, root |-> << >>]
NoOp == [op |-> "none", result |-> "ok", filter |-> FALSE, total |-> 0, recs |-> << >>]

InitCommon ==
    /\ connected = FALSE
    /\ monitorText = "Start Monitor"
    /\ timerActive = FALSE
    /\ dev = DevInit
    /\ addressList = << >>
    /\ decimalList = << >>
    /\ cellSlot = FALSE
    /\ gainsOnly = TRUE
    /\ file = [exists |-> FALSE, doc |-> << >>]
    /\ pc = "idle"
    /\ job = NoJob
    /\ bus = << >>
    /\ done = NoOp
    /\ tickLog = << >>
    /\ nOps = 0

engineVars == << connected, monitorText, timerActive, dev, addressList,
                 decimalList, cellSlot, gainsOnly, file, pc, job, bus, done,
                 tickLog, nOps >>

-----------------------------------------------------------------------------
(* The device connection (minimalmodbus.Instrument) and the requests the   *)
(* tool sends.  by is the handler that sent the request, param the bare    *)
(* address of the parameter it concerns, unscaled the integer the written  *)
(* word was made from.                                                     *)

ReadReq(by, addr, n, ok, vals, param, code) ==
    [by |-> by, fc |-> "read", addr |-> addr, n |-> n, ok |-> ok, vals |-> vals,
     value |-> 0, param |-> param, unscaled |-> 0, code |-> code]

WriteReq(by, addr, value, ok, param, unscaled, code) ==
    [by |-> by, fc |-> "write", addr |-> addr, n |-> 1, ok |-> ok, vals |-> << >>,
     value |-> value, param |-> param, unscaled |-> unscaled, code |-> code]

\* the drive stores a word written to address | 0x8000 in register address
Store(d, reg, value) ==
    IF (reg - WriteBit) \in DOMAIN d THEN [d EXCEPT ![reg - WriteBit] = value] ELSE d

Outcome(addr, unscaled, code, outcome) ==
    [addr |-> addr, unscaled |-> unscaled, code |-> code, outcome |-> outcome]

\* WriteOne without the read-back
WriteOneNoReadback(by, addr, unscaled, code, how, st) ==
    LET reg == OrWriteBit(addr)
        value == TwosComplement(unscaled)
    IN  IF ~ Packable(value)
        THEN [st EXCEPT !.recs = Append(@, Outcome(addr, unscaled, code, "RangeError"))]
        ELSE [st EXCEPT
                !.dev = IF how = "wfail" THEN @ ELSE Store(@, reg, value),
                !.bus = Append(@, WriteReq(by, reg, value, how # "wfail", addr, unscaled, code)),
                !.recs = Append(@, Outcome(addr, unscaled, code,
                                    IF how = "wfail" THEN "WriteError" ELSE "written"))]

\* writeParams (lines 430-441) and writeParamsFromXML (lines 551-562): the
\* word is made from the integer, written to reg | 0x8000 and read back from
\* reg, which by then carries the bit.  how is what the device does: "ok",
\* "wfail" (the write raises) or "rfail" (the read-back raises).
WriteOne(by, addr, unscaled, code, how, st) ==
    LET reg == OrWriteBit(addr)
        value == TwosComplement(unscaled)
    IN  IF ~ Packable(value)
        THEN [st EXCEPT !.recs = Append(@, Outcome(addr, unscaled, code, "RangeError"))]
        ELSE IF how = "wfail"
        THEN [st EXCEPT
                !.bus = Append(@, WriteReq(by, reg, value, FALSE, addr, unscaled, code)),
                !.recs = Append(@, Outcome(addr, unscaled, code, "WriteError"))]
        ELSE [st EXCEPT
                !.dev = Store(@, reg, value),
                !.bus = @ \o << WriteReq(by, reg, value, TRUE, addr, unscaled, code),
                                ReadReq(by, reg, 1, how # "rfail", << >>, addr, code) >>,
                !.recs = Append(@, Outcome(addr, unscaled, code,
                                    IF how = "rfail" THEN "ReadbackError" ELSE "written"))]

Hows == { "ok", "wfail", "rfail" }

\* writeParamsFromXML, one Parameter element (lines 532-565)
ReplayOne(rec, how, filter, st) ==
    IF Skipped(rec, filter)
    THEN [st EXCEPT !.recs = Append(@, Outcome(rec.addr, 0, rec.code, "skipped"))]
    ELSE IF rec.value.lit = "bad"
    THEN [st EXCEPT !.raised = TRUE]
    ELSE WriteOne("load", rec.addr, ReplayValue(rec), rec.code, how, st)

\* writeParamsFromXML, the Parameter elements of one group
RECURSIVE ReplayGroup(_, _, _, _, _)
ReplayGroup(recs, i, hows, filter, st) ==
    IF i > Len(recs) \/ st.raised THEN st
    ELSE ReplayGroup(recs, i + 1, hows, filter, ReplayOne(recs[i], hows[i], filter, st))

\* readParams, the loop over the parameters of a group (lines 361-409);
\* the k-th read raises (k = 0: none does)
RECURSIVE ReadGroup(_, _, _, _, _)
ReadGroup(by, params, i, k, st) ==
    IF i > Len(params) \/ st.raised THEN st
    ELSE LET par == params[i]
             dec == IF par.dec < 0 THEN 0 ELSE par.dec
         IN  IF i = k
             THEN [st EXCEPT
                     !.addressList = Append(@, par.addr),
                     !.bus = Append(@, ReadReq(by, par.addr, 1, FALSE, << >>, par.addr, par.code)),
                     !.recs = Append(@, Outcome(par.addr, 0, par.code, "ReadError")),
                     !.raised = TRUE]
             ELSE ReadGroup(by, params, i + 1, k,
                    [st EXCEPT
                       !.addressList = Append(@, par.addr),
                       !.decimalList = Append(@, dec),
                       !.bus = Append(@, ReadReq(by, par.addr, 1, TRUE,
                                                 << st.dev[par.addr] >>, par.addr,
                                                 par.code)),
                       !.recs = Append(@, Outcome(par.addr, 0, par.code, "read")),
                       !.rows = Append(@, SaveRecord(par, st.dev[par.addr]))])

\* the locals of a handler run
Run(b) ==
    [dev |-> dev, bus |-> b, recs |-> done.recs, raised |-> FALSE,
     addressList |-> << >>, decimalList |-> << >>, rows |-> << >>]

-----------------------------------------------------------------------------
(* The Qt event loop.  Handlers run to completion on the GUI thread; the   *)
(* timer and the operator are served when the loop is idle, and inside a   *)
(* bulk operation where QProgressDialog.setValue() of the window-modal     *)
(* dialog calls processEvents(): the first setValue starts the dialog's    *)
(* clock, the second shows it, every later one processes events.           *)

Idle == pc = "idle"
BatchEvents == pc # "idle" /\ job.gi >= 3
Click == Idle /\ nOps < MaxOps /\ nOps' = nOps + 1

\* the record of a handler run: total is the number of parameters it is to process
Began(op, total) ==
    [op |-> op, result |-> "ok", filter |-> gainsOnly, total |-> total, recs |-> << >>]

RECURSIVE Count(_)
Count(doc) == IF doc = << >> THEN 0 ELSE Len(Head(doc)) + Count(Tail(doc))

-----------------------------------------------------------------------------
(* Polling engine *)

\* startStopMonitor, the two branches
StartBranch ==
    /\ timerActive' = TRUE
    /\ monitorText' = "Stop Monitor"
    /\ yData' = [c \in Curves |-> setData]

\* StopBranch that changes the button text and leaves the timer running
StopBranchKeepsTimer ==
    /\ timerActive' = timerActive
    /\ monitorText' = "Start Monitor"
    /\ UNCHANGED yData

StopBranch ==
    /\ timerActive' = FALSE
    /\ monitorText' = "Start Monitor"
    /\ UNCHANGED yData

startStopMonitor ==
    /\ Click
    /\ IF monitorText = "Start Monitor" THEN StartBranch ELSE StopBranch
    /\ UNCHANGED << connected, active, dev, addressList, decimalList, cellSlot,
                    gainsOnly, file, pc, job, bus, done, tickLog, seqNo, arg, res >>

\* the Active checkbox of a curve is toggled: setActive
setActive(c) ==
    /\ Click
    /\ active' = [active EXCEPT ![c] = ~ @]
    /\ yData' = [yData EXCEPT ![c] = setData]
    /\ UNCHANGED << connected, monitorText, timerActive, dev, addressList,
                    decimalList, cellSlot, gainsOnly, file, pc, job, bus, done,
                    tickLog, seqNo, arg, res >>

\* openCloseComport
openCloseComport ==
    /\ Click
    /\ IF ~ connected
       THEN \E how \in { "noport", "noreply", "ok" } :
              /\ connected' = (how = "ok")
              /\ bus' = IF how = "noport" THEN << >>
                        ELSE << ReadReq("probe", ProbeReg, 1, how = "ok",
                                        IF how = "ok" THEN << dev[ProbeReg] >> ELSE << >>,
                                        ProbeReg, NoCode) >>
              /\ done' = [Began("open", 0) EXCEPT !.result =
                            IF how = "ok" THEN "ok" ELSE "DeviceError"]
              /\ UNCHANGED << monitorText, timerActive, yData >>
       ELSE /\ IF monitorText = "Stop Monitor" THEN StopBranch
               ELSE UNCHANGED << monitorText, timerActive, yData >>
            /\ connected' = FALSE
            /\ bus' = << >>
            /\ done' = Began("close", 0)
    /\ UNCHANGED << active, dev, addressList, decimalList, cellSlot, gainsOnly,
                    file, pc, job, tickLog, seqNo, arg, res >>

\* what the drive's live registers hold at a tick: one of two snapshots
LiveWord(s, a) == IF s = 1 THEN a ELSE WordMod - a

\* int(value * 100) of a normal deviate; the model draws from non-negative
\* values only
SynthWord(s, a) == IF s = 1 THEN 0 ELSE (37 * a) % 100

RECURSIVE Flatten(_)
Flatten(ss) == IF ss = << >> THEN << >> ELSE Head(ss) \o Flatten(Tail(ss))

\* curves_regs as the list of the active curves, in the order of self.curves
RECURSIVE ActiveCurves(_)
ActiveCurves(c) ==
    IF c > Len(LiveData) THEN << >>
    ELSE (IF active[c] THEN << c >> ELSE << >>) \o ActiveCurves(c + 1)

CurveRegs(cs) == Flatten([i \in DOMAIN cs |-> LiveData[cs[i]].regs])

\* zip(regs, values) of every range into one dictionary, looked up at reg
RegValue(ranges, vals, reg) ==
    LET i == CHOOSE j \in DOMAIN ranges :
                 /\ ranges[j].start <= reg /\ reg < ranges[j].start + ranges[j].count
                 /\ \A m \in DOMAIN ranges :
                      (ranges[m].start <= reg /\ reg < ranges[m].start + ranges[m].count)
                         => m <= j
    IN  vals[i][reg - ranges[i].start + 1]

RangeVals(s, r) == [j \in 1..r.count |-> LiveWord(s, r.start + j - 1)]
SynthVals(s, r) == [j \in 1..r.count |-> SynthWord(s, r.start + j - 1)]

\* the loop over curves_regs.items(): every active curve gets its sample
Appended(ranges, vals) ==
    [c \in Curves |->
        IF active[c]
        THEN appendData(LiveData[c].signed, yData[c],
                        [i \in DOMAIN LiveData[c].regs |->
                            RegValue(ranges, vals, LiveData[c].regs[i])])
        ELSE yData[c]]

\* TickData with no try around the reads as a whole: the curves whose
\* registers were read before the failing range get their sample
TickDataPartial(ranges, s, k) ==
    LET vals == [i \in DOMAIN ranges |-> RangeVals(s, ranges[i])]
        got(c) == \A i \in DOMAIN LiveData[c].regs :
                     \E j \in DOMAIN ranges :
                        /\ k = 0 \/ j < k
                        /\ ranges[j].start <= LiveData[c].regs[i]
                        /\ LiveData[c].regs[i] < ranges[j].start + ranges[j].count
    IN  [c \in Curves |-> IF got(c) THEN Appended(ranges, vals)[c] ELSE yData[c]]

\* updateCurves with the device connected (lines 589-599): all ranges are
\* read before any curve is touched; the k-th read raises (k = 0: none) and
\* the except clause ends the tick
TickData(ranges, s, k) ==
    IF k = 0 THEN Appended(ranges, [i \in DOMAIN ranges |-> RangeVals(s, ranges[i])])
    ELSE yData

\* updateCurves, the timer's slot
updateCurves ==
    /\ timerActive
    /\ Idle \/ BatchEvents
    /\ Len(tickLog) < MaxTicks
    /\ LET base == IF Idle THEN << >> ELSE bus
           ranges == Aggregate(CurveRegs(ActiveCurves(1)))
       IN  IF ActiveCurves(1) = << >>
           THEN /\ tickLog' = Append(tickLog, "none")
                /\ bus' = base
                /\ UNCHANGED yData
           ELSE IF connected
           THEN \E s \in 1..2, k \in 0..Len(ranges) :
                  /\ bus' = base \o
                       [i \in 1..(IF k = 0 THEN Len(ranges) ELSE k) |->
                          ReadReq("tick", ranges[i].start, ranges[i].count, i # k,
                                  IF i # k THEN RangeVals(s, ranges[i]) ELSE << >>,
                                  ranges[i].start, NoCode)]
                  /\ yData' = TickData(ranges, s, k)
                  /\ tickLog' = Append(tickLog, IF k = 0 THEN "ok" ELSE "DeviceError")
           ELSE \E s \in 1..2 :
                  /\ bus' = base
                  /\ yData' = Appended(ranges,
                                [i \in DOMAIN ranges |-> SynthVals(s, ranges[i])])
                  /\ tickLog' = Append(tickLog, "synthetic")
    /\ done' = IF Idle THEN Began("tick", 0) ELSE done
    /\ UNCHANGED << connected, monitorText, timerActive, active, dev, addressList,
                    decimalList, cellSlot, gainsOnly, file, pc, job, nOps, seqNo,
                    arg, res >>

-----------------------------------------------------------------------------
(* Parameter store *)

\* readParams without the return of lines 348-349
readParamsUnguarded(g) ==
    /\ Click
    /\ \E k \in 0..Len(ParamGroups[g]) :
          LET st == ReadGroup("read", ParamGroups[g], 1, k,
                              [Run(<< >>) EXCEPT !.recs = << >>])
          IN  /\ bus' = st.bus
              /\ addressList' = st.addressList
              /\ decimalList' = st.decimalList
              /\ cellSlot' = ~ st.raised
              /\ done' = [Began("read", Len(ParamGroups[g])) EXCEPT
                            !.recs = st.recs,
                            !.result = IF st.raised THEN "DeviceError" ELSE "ok"]
    /\ UNCHANGED << connected, monitorText, timerActive, active, yData, dev,
                    gainsOnly, file, pc, job, tickLog, seqNo, arg, res >>

\* readParams, the Read Parameters button with group g selected
readParams(g) ==
    /\ Click
    /\ IF ~ connected
       THEN /\ bus' = << >>
            /\ done' = [Began("read", 0) EXCEPT !.result = "notConnected"]
            /\ UNCHANGED << addressList, decimalList, cellSlot >>
       ELSE \E k \in 0..Len(ParamGroups[g]) :
              LET st == ReadGroup("read", ParamGroups[g], 1, k,
                                  [Run(<< >>) EXCEPT !.recs = << >>])
              IN  /\ bus' = st.bus
                  /\ addressList' = st.addressList
                  /\ decimalList' = st.decimalList
                  /\ cellSlot' = ~ st.raised
                  /\ done' = [Began("read", Len(ParamGroups[g])) EXCEPT
                                !.recs = st.recs,
                                !.result = IF st.raised THEN "DeviceError" ELSE "ok"]
    /\ UNCHANGED << connected, monitorText, timerActive, active, yData, dev,
                    gainsOnly, file, pc, job, tickLog, seqNo, arg, res >>

\* what the operator types into a Value cell
WriteTexts ==
    { FloatText(125, 1), IntText(7), IntText(-40000), IntText(70000), BadText }

\* Converts with float() and int() taking any text
ConvertsAny(text, decimal) == TRUE

\* writeParams, lines 419-429: the cell text to an integer, or an exception
Converts(text, decimal) ==
    IF decimal # 0 THEN text.lit # "bad" ELSE text.lit = "int"

Unscaled(text, decimal) ==
    IF decimal # 0 THEN ScaleToInt(text, decimal) ELSE text.num

\* writeParams, the slot of ParamTable.cellChanged: row's Value cell now
\* holds text
writeParams(row, text) ==
    /\ Click
    /\ cellSlot
    /\ row \in DOMAIN decimalList
    /\ IF ~ connected
       THEN /\ bus' = << >>
            /\ done' = [Began("write", 0) EXCEPT !.result = "notConnected"]
            /\ UNCHANGED dev
       ELSE IF ~ Converts(text, decimalList[row])
       THEN /\ bus' = << >>
            /\ done' = [Began("write", 1) EXCEPT !.result = "ConversionError"]
            /\ UNCHANGED dev
       ELSE \E how \in Hows :
              LET st == WriteOne("write", addressList[row],
                                 Unscaled(text, decimalList[row]), NoCode, how,
                                 [Run(<< >>) EXCEPT !.recs = << >>])
              IN  /\ bus' = st.bus
                  /\ dev' = st.dev
                  /\ done' = [Began("write", 1) EXCEPT
                                !.recs = st.recs,
                                !.result = st.recs[1].outcome]
    /\ UNCHANGED << connected, monitorText, timerActive, active, yData,
                    addressList, decimalList, cellSlot, gainsOnly, file, pc, job,
                    tickLog, seqNo, arg, res >>

\* the "Only load gain relevant parameters" checkbox is toggled
toggleLoadGainsOnly ==
    /\ Click
    /\ gainsOnly' = ~ gainsOnly
    /\ UNCHANGED << connected, monitorText, timerActive, active, yData, dev,
                    addressList, decimalList, cellSlot, file, pc, job, bus, done,
                    tickLog, seqNo, arg, res >>

-----------------------------------------------------------------------------
(* Parameter file codec: bulk save *)

NewJob(doc) == [doc |-> doc, gi |-> 1, canceled |-> FALSE, root |-> << >>]

\* exportToFileDialog: the Export button; a file name is chosen or not
exportToFileDialog ==
    /\ Click
    /\ IF ~ connected
       THEN /\ done' = [Began("save", 0) EXCEPT !.result = "notConnected"]
            /\ UNCHANGED << pc, job >>
       ELSE \E chosen \in BOOLEAN :
              /\ done' = [Began("save", Count(ParamGroups)) EXCEPT !.result =
                            IF chosen THEN "running" ELSE "noFile"]
              /\ pc' = IF chosen THEN "save" ELSE "idle"
              /\ job' = IF chosen THEN NewJob(ParamGroups) ELSE NoJob
    /\ bus' = << >>
    /\ UNCHANGED << connected, monitorText, timerActive, active, yData, dev,
                    addressList, decimalList, cellSlot, gainsOnly, file, tickLog,
                    seqNo, arg, res >>

\* saveParamsAsXML, one turn of the loop over the groups (lines 467-488):
\* readParams of the group, then its table rows into the tree.  An exception
\* of read_register leaves readParams, saveParamsAsXML and the slot.
saveGroup ==
    /\ pc = "save"
    /\ job.gi <= Len(job.doc)
    /\ IF job.canceled
       THEN /\ job' = [job EXCEPT !.gi = Len(job.doc) + 1]
            /\ UNCHANGED << pc, bus, done, addressList, decimalList, cellSlot >>
       ELSE \E k \in 0..Len(job.doc[job.gi]) :
              LET st == ReadGroup("save", job.doc[job.gi], 1, k, Run(bus))
              IN  /\ bus' = st.bus
                  /\ addressList' = st.addressList
                  /\ decimalList' = st.decimalList
                  /\ cellSlot' = ~ st.raised
                  /\ done' = [done EXCEPT
                                !.recs = st.recs,
                                !.result = IF st.raised THEN "DeviceError" ELSE @]
                  /\ pc' = IF st.raised THEN "idle" ELSE pc
                  /\ job' = IF st.raised THEN NoJob
                            ELSE [job EXCEPT !.gi = @ + 1,
                                             !.root = Append(@, st.rows)]
    /\ UNCHANGED << connected, monitorText, timerActive, active, yData, dev,
                    gainsOnly, file, tickLog, nOps, seqNo, arg, res >>

\* saveParamsAsXML after the loop (lines 490-499): the file is written
saveFinish ==
    /\ pc = "save"
    /\ job.gi > Len(job.doc)
    /\ file' = [exists |-> TRUE, doc |-> job.root]
    /\ done' = [done EXCEPT !.result = IF job.canceled THEN "canceled" ELSE "ok"]
    /\ pc' = "idle"
    /\ job' = NoJob
    /\ UNCHANGED << connected, monitorText, timerActive, active, yData, dev,
                    addressList, decimalList, cellSlot, gainsOnly, bus, tickLog,
                    nOps, seqNo, arg, res >>

-----------------------------------------------------------------------------
(* Parameter file codec: bulk load *)

Rec(addr, value, dp, code) == [addr |-> addr, value |-> value, dp |-> dp, code |-> code]

\* a parameter file of the operator's: three groups; a record of another
\* tool's without Code and decimal_place, and values that do not fit a word
TuneDoc ==
    << << Rec(128, FloatText(-150, 1), 1, "P01"),
          Rec(131, IntText(70000), 0, "P04") >>,
       << Rec(129, FloatText(29, 2), 2, "P02"),
          Rec(130, IntText(-40000), -1, NoCode) >>,
       << Rec(131, IntText(-1), 0, "P04") >> >>

LoadDocs == { TuneDoc } \cup (IF file.exists THEN { file.doc } ELSE {})

\* loadParamsFromFileDialog: the Load button; a file is chosen or not
loadParamsFromFileDialog ==
    /\ Click
    /\ IF ~ connected
       THEN /\ done' = [Began("load", 0) EXCEPT !.result = "notConnected"]
            /\ UNCHANGED << pc, job >>
       ELSE \/ /\ done' = [Began("load", 0) EXCEPT !.result = "noFile"]
               /\ UNCHANGED << pc, job >>
            \/ \E doc \in LoadDocs :
               /\ done' = [Began("load", Count(doc)) EXCEPT !.result = "running"]
               /\ pc' = "load"
               /\ job' = NewJob(doc)
    /\ bus' = << >>
    /\ UNCHANGED << connected, monitorText, timerActive, active, yData, dev,
                    addressList, decimalList, cellSlot, gainsOnly, file, tickLog,
                    seqNo, arg, res >>

\* writeParamsFromXML, one turn of the loop over the groups (lines 525-565)
loadGroup ==
    /\ pc = "load"
    /\ job.gi <= Len(job.doc)
    /\ IF job.canceled
       THEN /\ job' = [job EXCEPT !.gi = Len(job.doc) + 1]
            /\ UNCHANGED << pc, bus, done, dev >>
       ELSE \E hows \in [DOMAIN job.doc[job.gi] -> Hows] :
              LET st == ReplayGroup(job.doc[job.gi], 1, hows, gainsOnly, Run(bus))
              IN  /\ bus' = st.bus
                  /\ dev' = st.dev
                  /\ done' = [done EXCEPT
                                !.recs = st.recs,
                                !.result = IF st.raised THEN "ParseError" ELSE @]
                  /\ pc' = IF st.raised THEN "idle" ELSE pc
                  /\ job' = IF st.raised THEN NoJob ELSE [job EXCEPT !.gi = @ + 1]
    /\ UNCHANGED << connected, monitorText, timerActive, active, yData,
                    addressList, decimalList, cellSlot, gainsOnly, file, tickLog,
                    nOps, seqNo, arg, res >>

\* writeParamsFromXML after the loop (line 567)
loadFinish ==
    /\ pc = "load"
    /\ job.gi > Len(job.doc)
    /\ done' = [done EXCEPT !.result = IF job.canceled THEN "canceled" ELSE "ok"]
    /\ pc' = "idle"
    /\ job' = NoJob
    /\ UNCHANGED << connected, monitorText, timerActive, active, yData, dev,
                    addressList, decimalList, cellSlot, gainsOnly, file, bus,
                    tickLog, nOps, seqNo, arg, res >>

\* the Cancel button of the progress dialog, served by processEvents()
cancelBatch ==
    /\ BatchEvents
    /\ job.gi <= Len(job.doc)
    /\ ~ job.canceled
    /\ nOps < MaxOps
    /\ nOps' = nOps + 1
    /\ job' = [job EXCEPT !.canceled = TRUE]
    /\ UNCHANGED << connected, monitorText, timerActive, active, yData, dev,
                    addressList, decimalList, cellSlot, gainsOnly, file, pc, bus,
                    done, tickLog, seqNo, arg, res >>

-----------------------------------------------------------------------------
(* The tool *)

Init ==
    /\ InitCommon
    /\ \E a \in BOOLEAN : active = [c \in Curves |-> a]
    /\ yData = [c \in Curves |-> setData]
    /\ seqNo = 0
    /\ arg = << >>
    /\ res = << >>

Next ==
    \/ openCloseComport
    \/ startStopMonitor
    \/ \E c \in Curves : setActive(c)
    \/ updateCurves
    \/ \E g \in Groups : readParams(g)
    \/ \E row \in 1..2, text \in WriteTexts : writeParams(row, text)
    \/ toggleLoadGainsOnly
    \/ exportToFileDialog
    \/ saveGroup
    \/ saveFinish
    \/ loadParamsFromFileDialog
    \/ loadGroup
    \/ loadFinish
    \/ cancelBatch

Spec == Init /\ [][Next]_vars

-----------------------------------------------------------------------------
(* Channel buffer alone: one curve, values 1, 2, 3, ... appended *)

BufCurve == CHOOSE c \in Curves : Len(LiveData[c].regs) = 1 /\ ~ LiveData[c].signed

InitBuf ==
    /\ InitCommon
    /\ active = [c \in Curves |-> FALSE]
    /\ \E n \in BOOLEAN : yData = [c \in Curves |-> [none |-> n, y |-> << >>]]
    /\ seqNo = 0
    /\ arg = << >>
    /\ res = << >>

BufAppend ==
    /\ seqNo < MaxAppends
    /\ seqNo' = seqNo + 1
    /\ yData' = [yData EXCEPT ![BufCurve] =
                    appendData(LiveData[BufCurve].signed, @, << seqNo + 1 >>)]
    /\ UNCHANGED << engineVars, active, arg, res >>

\* a restart: setData() as startStopMonitor and setActive call it
BufRestart ==
    /\ seqNo > 0
    /\ seqNo' = 0
    /\ yData' = [yData EXCEPT ![BufCurve] = setData]
    /\ UNCHANGED << engineVars, active, arg, res >>

NextBuf == BufAppend \/ BufRestart

SpecBuf == InitBuf /\ [][NextBuf]_vars

-----------------------------------------------------------------------------
(* Range aggregator alone: every list of up to MaxRegs requested registers *)

AggrAddrs == (0..MaxAddr) \cup { 20 }

InitAggr ==
    /\ InitCommon
    /\ active = [c \in Curves |-> FALSE]
    /\ yData = [c \in Curves |-> setData]
    /\ seqNo = 0
    /\ arg \in UNION { [1..n -> AggrAddrs] : n \in 1..MaxRegs }
    /\ res = << >>

AggrRun ==
    /\ res = << >>
    /\ res' = Aggregate(arg)
    /\ UNCHANGED << engineVars, active, yData, seqNo, arg >>

SpecAggr == InitAggr /\ [][AggrRun]_vars

-----------------------------------------------------------------------------
(* File codec alone: one parameter saved from the device and loaded back *)

CodecWords == (0..MaxWord) \cup { 150, 32767, 32768, 65386, 65535 }

InitCodec ==
    /\ InitCommon
    /\ active = [c \in Curves |-> FALSE]
    /\ yData = [c \in Curves |-> setData]
    /\ seqNo = 0
    /\ arg \in [val : CodecWords, dec : 0..4, neg : BOOLEAN]
    /\ res = << >>

CodecParam == [addr |-> ProbeReg, neg |-> arg.neg, dec |-> arg.dec, code |-> "P01"]

\* readParams and saveParamsAsXML of the one parameter
CodecSave ==
    /\ Len(res) = 0
    /\ res' = << SaveRecord(CodecParam, arg.val) >>
    /\ UNCHANGED << engineVars, active, yData, seqNo, arg >>

\* writeParamsFromXML of the saved record: the request it writes
CodecLoad ==
    /\ Len(res) = 1
    /\ LET value == TwosComplement(ReplayValue(res[1]))
       IN  res' = << res[1], [reg |-> OrWriteBit(res[1].addr),
                              value |-> value,
                              sent |-> Packable(value)] >>
    /\ UNCHANGED << engineVars, active, yData, seqNo, arg >>

NextCodec == CodecSave \/ CodecLoad

SpecCodec == InitCodec /\ [][NextCodec]_vars

-----------------------------------------------------------------------------
(* Properties *)

\* C1: the history of a channel never holds more than 1000 samples, and
\* after 1001 appends without a restart it holds exactly the newest 1000,
\* in append order (the first value appended is gone).
C1_HistoryBounded ==
    /\ \A c \in Curves : Len(yData[c].y) <= 1000
    /\ seqNo = 1001 => yData[BufCurve].y = [i \in 1..1000 |-> i + 1]

LastTick == tickLog[Len(tickLog)]
Ticked == Len(tickLog') = Len(tickLog) + 1

\* C2: a tick whose device read fails, on whichever range, leaves the engine
\* polling and every history as it was; a tick whose reads succeed gives
\* every active channel one new sample after the samples it had.
C2_FailedTickSkipped ==
    [][ /\ (Ticked /\ LastTick' = "DeviceError") =>
             /\ yData' = yData
             /\ monitorText' = "Stop Monitor"
             /\ timerActive'
        /\ (Ticked /\ LastTick' = "ok") =>
             \A c \in Curves :
                active[c] =>
                   /\ Len(yData'[c].y) = Len(yData[c].y) + 1
                   /\ SubSeq(yData'[c].y, 1, Len(yData[c].y)) = yData[c].y
                   /\ timerActive' ]_vars

\* C2 witness: a tick failed on its second range with two ranges to read,
\* and the tick after it succeeded and gave the active curves a sample
C2_Witness ==
    /\ tickLog = << "DeviceError", "ok" >>
    /\ monitorText = "Stop Monitor"
    /\ timerActive
    /\ \A c \in Curves : active[c] /\ Len(yData[c].y) = 1

StoreWriters == { "write", "load" }
Sent(outcome) == outcome \in { "written", "ReadbackError", "WriteError" }

\* C3: every parameter write, interactive or replayed from a file, is sent
\* to address | 0x8000; a write that succeeds is followed at once by one
\* read-back for the same parameter, a write that fails by none, and no
\* read-back comes without its write before it.
C3_WriteThenReadBack ==
    /\ \A i \in DOMAIN bus :
          bus[i].by \in StoreWriters =>
             /\ (bus[i].fc = "write") =>
                   bus[i].param < 32768 /\ bus[i].addr = bus[i].param + 32768
             /\ (bus[i].fc = "write" /\ bus[i].ok) =>
                   /\ i < Len(bus)
                   /\ bus[i + 1].by = bus[i].by
                   /\ bus[i + 1].fc = "read"
                   /\ bus[i + 1].param = bus[i].param
             /\ (bus[i].fc = "write" /\ ~ bus[i].ok) =>
                   ~ (i < Len(bus) /\ bus[i + 1].by = bus[i].by /\ bus[i + 1].fc = "read")
             /\ (bus[i].fc = "read") =>
                   /\ i > 1
                   /\ bus[i - 1].by = bus[i].by
                   /\ bus[i - 1].fc = "write"
                   /\ bus[i - 1].ok
                   /\ bus[i - 1].param = bus[i].param
    /\ done.op \in StoreWriters =>
          Cardinality({ i \in DOMAIN done.recs : Sent(done.recs[i].outcome) })
             = Cardinality({ i \in DOMAIN bus :
                               bus[i].by \in StoreWriters /\ bus[i].fc = "write" })

\* C3 witness: a load in which one write failed (no read-back after it) and
\* a later write succeeded and was read back
C3_Witness ==
    /\ done.op = "load"
    /\ \E i, j \in DOMAIN bus :
          /\ i < j /\ j < Len(bus)
          /\ bus[i].by = "load" /\ bus[i].fc = "write" /\ ~ bus[i].ok
          /\ bus[j].by = "load" /\ bus[j].fc = "write" /\ bus[j].ok
          /\ bus[j + 1].by = "load" /\ bus[j + 1].fc = "read"

\* C4: every read request (parameter read, bulk read of a tick, probe,
\* read-back after a write) goes to an address with bit 0x8000 clear; only
\* write requests carry the bit.
C4_ReadsUseBareAddress ==
    \A i \in DOMAIN bus :
       /\ (bus[i].fc = "read") => bus[i].addr < 32768
       /\ (bus[i].fc = "write") => bus[i].addr >= 32768

\* C5: a parameter write whose integer value is outside -32768..65535 fails
\* with a range error and no word is written for it.
C5_RangeChecked ==
    /\ \A i \in DOMAIN done.recs :
          (done.op \in StoreWriters /\ done.recs[i].outcome # "skipped"
             /\ done.recs[i].unscaled \notin -32768..65535)
          => done.recs[i].outcome = "RangeError"
    /\ \A i \in DOMAIN bus :
          (bus[i].fc = "write") => bus[i].unscaled \in -32768..65535

\* C7: in a load with the gain-only filter on, no request is sent for a
\* record whose code is not in the allow-list, a record without a code
\* included.
C7_FilterSkips ==
    (done.op = "load" /\ done.filter) =>
       /\ \A i \in DOMAIN bus :
             bus[i].by = "load" => bus[i].code \in GainCodes
       /\ \A i \in DOMAIN done.recs :
             done.recs[i].code \notin GainCodes => done.recs[i].outcome = "skipped"

\* C8: a bulk load or save that was not canceled processes every parameter
\* of every group whatever the device does, and the save writes its file.
C8_BestEffort ==
    (Idle /\ done.op \in { "save", "load" }
          /\ done.result \notin { "notConnected", "noFile", "canceled", "ParseError" })
    => /\ done.result = "ok"
       /\ Len(done.recs) = done.total
       /\ done.op = "save" => file.exists /\ Count(file.doc) = done.total

StoreOps == { "read", "write", "save", "load" }

\* C10: no tick's read comes between two device requests of a parameter
\* read or write or of a bulk load or save.
C10_NoTickInsideBatch ==
    \A i, j, k \in DOMAIN bus :
       (i < j /\ j < k) =>
          ~ (bus[i].by \in StoreOps /\ bus[j].by = "tick" /\ bus[k].by \in StoreOps)

Requested == { arg[i] : i \in DOMAIN arg }
RangeEnd(r) == r.start + r.count - 1
RangesOf(a) == { i \in DOMAIN res : res[i].start <= a /\ a <= RangeEnd(res[i]) }
AdjacentRequested(a, b) ==
    a < b /\ ~ \E c \in Requested : a < c /\ c < b

\* C6: for a non-empty list of requested registers the aggregator's ranges
\* are in ascending order and more than 3 apart, every requested register
\* lies in exactly one range, every range starts and ends at a requested
\* register, and two requested registers adjacent in sorted order share a
\* range exactly when they differ by at most 3; {5,6,9,20} gives
\* [{5,5},{20,1}].
C6_Aggregation ==
    res # << >> =>
        /\ \A i \in DOMAIN res : res[i].count >= 1
        /\ \A i \in 1..(Len(res) - 1) : res[i + 1].start - RangeEnd(res[i]) > 3
        /\ \A a \in Requested : Cardinality(RangesOf(a)) = 1
        /\ \A i \in DOMAIN res :
              res[i].start \in Requested /\ RangeEnd(res[i]) \in Requested
        /\ \A a, b \in Requested :
              AdjacentRequested(a, b) => ((RangesOf(a) = RangesOf(b)) <=> (b - a <= 3))
        /\ Requested = { 5, 6, 9, 20 } =>
              res = << [start |-> 5, count |-> 5], [start |-> 20, count |-> 1] >>

\* C6 witness: the registers 9, 5, 20, 6 (and 6 again) were aggregated
C6_Witness ==
    /\ arg = << 9, 5, 20, 6 >>
    /\ res = << [start |-> 5, count |-> 5], [start |-> 20, count |-> 1] >>

\* C9: a parameter saved to a file and loaded back is written with exactly
\* the word that was read from the device, to the address with bit 0x8000.
C9_RoundTrip ==
    Len(res) = 2 =>
        /\ res[2].sent
        /\ res[2].value = arg.val
        /\ res[2].reg = ProbeReg + 32768

\* C11: an interactive write of a text that is no number, with the device
\* connected, ends with a conversion error: no request is sent and the
\* device holds what it held.
C11_NonNumericRejected ==
    [][ \A row \in 1..2 :
          (connected /\ writeParams(row, BadText)) =>
             /\ done'.op = "write"
             /\ done'.result = "ConversionError"
             /\ bus' = << >>
             /\ dev' = dev ]_vars

\* C11 witness: connected, the one row of the table has one decimal place
\* (every numeric text converts), and the write ended with a conversion error
C11_Witness ==
    /\ connected
    /\ decimalList = << 1 >>
    /\ done.op = "write"
    /\ done.result = "ConversionError"
    /\ bus = << >>
    /\ dev = DevInit

\* C12: no operation leaves a channel with fewer samples than it had.
C12_NeverShrinks ==
    [][ \A c \in Curves : Len(yData'[c].y) >= Len(yData[c].y) ]_vars

\* the read requests of the tick just taken
TickReads == IF pc = "idle" THEN bus' ELSE SubSeq(bus', Len(bus) + 1, Len(bus'))

\* the word the tick read for register reg
ReadWord(reads, reg) ==
    LET i == CHOOSE j \in DOMAIN reads :
                 reads[j].addr <= reg /\ reg < reads[j].addr + reads[j].n
    IN  reads[i].vals[reg - reads[i].addr + 1]

\* the sample of curve c as the claim states it
Sample(c, reads) ==
    LET regs == LiveData[c].regs
        hi == ReadWord(reads, regs[1])
    IN  IF Len(regs) = 2
        THEN LET lo == ReadWord(reads, regs[2])
             IN  IF hi >= 32768 THEN (hi - 65536) * 65536 + lo ELSE hi * 65536 + lo
        ELSE IF LiveData[c].signed /\ hi >= 32768 THEN hi - 65536 ELSE hi

\* C13: on a tick whose reads succeed every active channel gets exactly one
\* new sample, decoded from the words this tick read for its own registers
\* (two registers: 32 bits, first register high, signed; one register:
\* signed or unsigned as the channel says); inactive channels get none.
C13_SamplePerChannel ==
    [][ (Ticked /\ LastTick' = "ok") =>
           \A c \in Curves :
              IF active[c]
              THEN /\ Len(yData'[c].y) = Len(yData[c].y) + 1
                   /\ yData'[c].y[Len(yData'[c].y)] = Sample(c, TickReads)
              ELSE yData'[c] = yData[c] ]_vars

\* C13 witness: one tick read words with the top bit set; the two-register
\* curve and the signed curve hold the negative samples, the inactive curve
\* holds none
C13_Witness ==
    /\ tickLog = << "ok" >>
    /\ active = << TRUE, TRUE, FALSE >>
    /\ yData[1].y = << -262150 >>
    /\ yData[2].y = << -9 >>
    /\ yData[3].y = << >>

\* the requests a step sent
StepRequests ==
    IF bus' = bus THEN << >>
    ELSE IF pc = "idle" THEN bus'
    ELSE SubSeq(bus', Len(bus) + 1, Len(bus'))

C15_CloseStopsPolling ==
    [][ /\ (connected /\ ~ connected') =>
             /\ ~ timerActive'
             /\ monitorText' = "Start Monitor"
             /\ tickLog' = tickLog
        /\ (~ timerActive /\ timerActive') =>
             /\ monitorText = "Start Monitor"
             /\ monitorText' = "Stop Monitor"
             /\ nOps' = nOps + 1
             /\ connected' = connected
        /\ Ticked => timerActive ]_vars

\* C15 witness: the port was opened, the monitor started, a tick read the
\* device, and the port was closed with the monitor running
C15_Witness ==
    /\ nOps = 3
    /\ done.op = "close"
    /\ tickLog = << "ok" >>
    /\ ~ connected
    /\ ~ timerActive
    /\ monitorText = "Start Monitor"

=============================================================================
